---- MODULE Spec2Model ----
(***************************************************************************)
(* Model of the MAX7219 daisy-chain driver (src/src/driver/max7219.rs).    *)
(*                                                                         *)
(* The driver owns an SPI transport, a transmit buffer of MAX_DISPLAYS * 2 *)
(* bytes and the configured chain length.  Every public method is one      *)
(* action of the model; each action runs the whole method, including every *)
(* spi.write it issues.  The transport is modelled as a log of the frames  *)
(* attempted by the most recent call, plus the ordinal of the write (if    *)
(* any) on which the transport reports an error.                           *)
(***************************************************************************)
EXTENDS Integers, Sequences, FiniteSets, TLC

\* ---------------------------------------------------------------------------
\* Crate constants and the register table (crate root and registers module)
\* ---------------------------------------------------------------------------

\* MAX_DISPLAYS is set in the crate root.  The driver only compares against it
\* and sizes its buffer with it; the model takes 4, the longest chain the
\* driver's unit tests configure.
MAX_DISPLAYS == 4

\* NUM_DIGITS: the digit registers of one device.
NUM_DIGITS == 8

\* Register names, in the order of the chip's address map.
Registers ==
    { "NoOp", "Digit0", "Digit1", "Digit2", "Digit3", "Digit4", "Digit5",
      "Digit6", "Digit7", "DecodeMode", "Intensity", "ScanLimit", "Shutdown",
      "DisplayTest" }

\* Register::addr / `register as u8`: the one-byte address of a register.
addr(register) ==
    CASE register = "NoOp"        -> 0
      [] register = "Digit0"      -> 1
      [] register = "Digit1"      -> 2
      [] register = "Digit2"      -> 3
      [] register = "Digit3"      -> 4
      [] register = "Digit4"      -> 5
      [] register = "Digit5"      -> 6
      [] register = "Digit6"      -> 7
      [] register = "Digit7"      -> 8
      [] register = "DecodeMode"  -> 9
      [] register = "Intensity"   -> 10
      [] register = "ScanLimit"   -> 11
      [] register = "Shutdown"    -> 12
      [] register = "DisplayTest" -> 15

\* Register::digits(): the eight digit registers in index order.
digits ==
    << "Digit0", "Digit1", "Digit2", "Digit3",
       "Digit4", "Digit5", "Digit6", "Digit7" >>

\* Register::try_digit(digit): the digit register of an index, or InvalidDigit.
try_digit(digit) ==
    IF digit < 8
    THEN [res |-> "Ok", reg |-> digits[digit + 1]]
    ELSE [res |-> "InvalidDigit", reg |-> "NoOp"]

DecodeModes == { "NoDecode", "Digit0", "Digits0To3", "AllDigits" }

\* DecodeMode::value / `mode as u8`: the payload byte of a decode mode.
DecodeModeValue(mode) ==
    CASE mode = "NoDecode"   -> 0
      [] mode = "Digit0"     -> 1
      [] mode = "Digits0To3" -> 15
      [] mode = "AllDigits"  -> 255

\* ---------------------------------------------------------------------------
\* Bounds of the model
\* ---------------------------------------------------------------------------

\* Data bytes offered to the operations: DataByte(0) .. DataByte(MaxData),
\* that is 0xFF, 0x00, 0x01, ...
MaxData == 0

\* Largest scan limit, intensity and digit index offered beyond the valid range.
MaxLimitArg == 9

MaxIntensityArg == 16

MaxDigitArg == 8

DataByte(k) == (255 + k) % 256

DataBytes == { DataByte(k) : k \in 0..MaxData }

DeviceIndexes == 0..MAX_DISPLAYS

DeviceCounts == 0..(MAX_DISPLAYS + 1)

\* Operation lists offered to write_all_registers: every list of at most
\* MAX_DISPLAYS + MaxExtraOps pairs drawn from OpSamples.
MaxExtraOps == 1

OpSamples == { << "Intensity", 1 >>, << "Digit0", 255 >> }

OpLists == UNION { [1..n -> OpSamples] : n \in 0..(MAX_DISPLAYS + MaxExtraOps) }

\* ---------------------------------------------------------------------------
\* State
\* ---------------------------------------------------------------------------

VARIABLES
    alive,          \* TRUE while a Max7219 value exists (not consumed by an Err)
    device_count,   \* Max7219::device_count
    buffer,         \* Max7219::buffer, indexed 0 .. MAX_DISPLAYS * 2 - 1
    spi,            \* the transport: the frames the last call asked it to write
    spi_error,      \* which write of the last call the transport failed (0: none)
    call,           \* the most recent call and its arguments
    result,         \* what the most recent call returned
    reconfigured    \* history: a with_device_count has changed device_count

vars == << alive, device_count, buffer, spi, spi_error, call, result,
           reconfigured >>

BufferIndexes == 0..(MAX_DISPLAYS * 2 - 1)

\* [0; MAX_DISPLAYS * 2]
ZeroBuffer == [j \in BufferIndexes |-> 0]

\* &self.buffer[0..len]
Slice(buf, len) == [k \in 1..len |-> buf[k - 1]]

\* The transport as a call sees it: nothing written yet by this call, and the
\* failAt-th write of the call (0: none) reports a transport error.
FreshSpi(failAt) == [log |-> << >>, failAt |-> failAt, failed |-> 0]

\* SpiDevice::write: one attempt to transfer the frame in one transaction.
spi_write(s, frame) ==
    LET n == Len(s.log) + 1
    IN  [spi |-> [s EXCEPT !.log = Append(@, frame),
                           !.failed = IF n = s.failAt THEN n ELSE @],
         res |-> IF n = s.failAt THEN "Spi" ELSE "Ok"]

\* ---------------------------------------------------------------------------
\* The driver's methods.  Each takes the driver value d and returns the driver
\* value after the call together with the call's result.
\* ---------------------------------------------------------------------------

Done(d, res) == [d |-> d, res |-> res]

\* Max7219::new
new(failAt) ==
    [device_count |-> 1, buffer |-> ZeroBuffer, spi |-> FreshSpi(failAt)]

\* with_device_count with `self.device_count = count` moved above the check.
with_device_count_early(d, count) ==
    IF count > MAX_DISPLAYS
    THEN Done([d EXCEPT !.device_count = count], "InvalidDeviceCount")
    ELSE Done([d EXCEPT !.device_count = count], "Ok")

\* Max7219::with_device_count
with_device_count(d, count) ==
    IF count > MAX_DISPLAYS
    THEN Done(d, "InvalidDeviceCount")
    ELSE Done([d EXCEPT !.device_count = count], "Ok")

\* write_device_register with the index check `>` in place of `>=`.
write_device_register_inclusive(d, device_index, register, data) ==
    IF device_index > d.device_count
    THEN Done(d, "InvalidDeviceIndex")
    ELSE LET offset == device_index * 2
             buf == [j \in BufferIndexes |->
                       IF j = offset THEN addr(register)
                       ELSE IF j = offset + 1 THEN data ELSE 0]
             w == spi_write(d.spi, Slice(buf, d.device_count * 2))
         IN  Done([d EXCEPT !.buffer = buf, !.spi = w.spi], w.res)

\* write_device_register without `self.buffer = [0; MAX_DISPLAYS * 2]`.
write_device_register_stale(d, device_index, register, data) ==
    IF device_index >= d.device_count
    THEN Done(d, "InvalidDeviceIndex")
    ELSE LET offset == device_index * 2
             buf == [d.buffer EXCEPT ![offset] = addr(register),
                                     ![offset + 1] = data]
             w == spi_write(d.spi, Slice(buf, d.device_count * 2))
         IN  Done([d EXCEPT !.buffer = buf, !.spi = w.spi], w.res)

\* write_device_register with `self.buffer = [0; MAX_DISPLAYS * 2]` moved above
\* the index check.
write_device_register_zero_first(d, device_index, register, data) ==
    IF device_index >= d.device_count
    THEN Done([d EXCEPT !.buffer = ZeroBuffer], "InvalidDeviceIndex")
    ELSE LET offset == device_index * 2
             buf == [ZeroBuffer EXCEPT ![offset] = addr(register),
                                       ![offset + 1] = data]
             w == spi_write(d.spi, Slice(buf, d.device_count * 2))
         IN  Done([d EXCEPT !.buffer = buf, !.spi = w.spi], w.res)

\* Max7219::write_device_register
write_device_register(d, device_index, register, data) ==
    IF device_index >= d.device_count
    THEN Done(d, "InvalidDeviceIndex")
    ELSE LET offset == device_index * 2
             buf == [ZeroBuffer EXCEPT ![offset] = addr(register),
                                       ![offset + 1] = data]
             w == spi_write(d.spi, Slice(buf, d.device_count * 2))
         IN  Done([d EXCEPT !.buffer = buf, !.spi = w.spi], w.res)

\* write_all_registers sending the whole buffer instead of device_count * 2 bytes.
write_all_registers_whole_buffer(d, ops) ==
    LET buf == [j \in BufferIndexes |->
                  IF (j \div 2) < Len(ops)
                  THEN IF j % 2 = 0 THEN addr(ops[(j \div 2) + 1][1])
                                    ELSE ops[(j \div 2) + 1][2]
                  ELSE 0]
        len == MAX_DISPLAYS * 2
        w == spi_write(d.spi, Slice(buf, len))
    IN  Done([d EXCEPT !.buffer = buf, !.spi = w.spi], w.res)

\* write_all_registers writing the frame a second time when the first write
\* fails.
write_all_registers_retry(d, ops) ==
    LET buf == [j \in BufferIndexes |->
                  IF (j \div 2) < Len(ops)
                  THEN IF j % 2 = 0 THEN addr(ops[(j \div 2) + 1][1])
                                    ELSE ops[(j \div 2) + 1][2]
                  ELSE 0]
        len == d.device_count * 2
        w1 == spi_write(d.spi, Slice(buf, len))
        w == IF w1.res = "Ok" THEN w1 ELSE spi_write(w1.spi, Slice(buf, len))
    IN  IF Len(ops) > MAX_DISPLAYS
        THEN Done([d EXCEPT !.buffer = buf], "Panic")
        ELSE Done([d EXCEPT !.buffer = buf, !.spi = w.spi], w.res)

\* write_all_registers filling the buffer from its far end: pair i stored at
\* the position of device len - 1 - i.
write_all_registers_reversed(d, ops) ==
    LET n == Len(ops)
        buf == [j \in BufferIndexes |->
                  IF (j \div 2) < n
                  THEN IF j % 2 = 0 THEN addr(ops[n - (j \div 2)][1])
                                    ELSE ops[n - (j \div 2)][2]
                  ELSE 0]
        len == d.device_count * 2
        w == spi_write(d.spi, Slice(buf, len))
    IN  IF Len(ops) > MAX_DISPLAYS
        THEN Done([d EXCEPT !.buffer = buf], "Panic")
        ELSE Done([d EXCEPT !.buffer = buf, !.spi = w.spi], w.res)

\* Max7219::write_all_registers; ops is a sequence of << register, data >>.
\* The loop stores pair i at buffer[2i], buffer[2i + 1]; with more than
\* MAX_DISPLAYS pairs the store at index MAX_DISPLAYS * 2 is out of bounds and
\* panics, after the buffer was filled and before anything is sent.
write_all_registers(d, ops) ==
    LET buf == [j \in BufferIndexes |->
                  IF (j \div 2) < Len(ops)
                  THEN IF j % 2 = 0 THEN addr(ops[(j \div 2) + 1][1])
                                    ELSE ops[(j \div 2) + 1][2]
                  ELSE 0]
        len == d.device_count * 2
        w == spi_write(d.spi, Slice(buf, len))
    IN  IF Len(ops) > MAX_DISPLAYS
        THEN Done([d EXCEPT !.buffer = buf], "Panic")
        ELSE Done([d EXCEPT !.buffer = buf, !.spi = w.spi], w.res)

\* [(register, data); MAX_DISPLAYS][..self.device_count]
UniformOps(d, register, data) ==
    SubSeq([k \in 1..MAX_DISPLAYS |-> << register, data >>], 1, d.device_count)

\* Max7219::power_on
power_on(d) == write_all_registers(d, UniformOps(d, "Shutdown", 1))

\* Max7219::power_off
power_off(d) == write_all_registers(d, UniformOps(d, "Shutdown", 0))

\* Max7219::power_on_device
power_on_device(d, device_index) ==
    write_device_register(d, device_index, "Shutdown", 1)

\* Max7219::power_off_device
power_off_device(d, device_index) ==
    write_device_register(d, device_index, "Shutdown", 0)

\* Max7219::test_device
test_device(d, device_index, enable) ==
    LET data == IF enable THEN 1 ELSE 0
    IN  write_device_register(d, device_index, "DisplayTest", data)

\* Max7219::test_all
test_all(d, enable) ==
    LET data == IF enable THEN 1 ELSE 0
    IN  write_all_registers(d, UniformOps(d, "DisplayTest", data))

\* set_device_scan_limit writing `limit` instead of `limit - 1`.
set_device_scan_limit_raw(d, device_index, limit) ==
    IF ~(limit \in 1..8)
    THEN Done(d, "InvalidScanLimit")
    ELSE write_device_register(d, device_index, "ScanLimit", limit)

\* Max7219::set_device_scan_limit
set_device_scan_limit(d, device_index, limit) ==
    IF ~(limit \in 1..8)
    THEN Done(d, "InvalidScanLimit")
    ELSE write_device_register(d, device_index, "ScanLimit", limit - 1)

\* Max7219::set_scan_limit_all
set_scan_limit_all(d, limit) ==
    IF ~(limit \in 1..8)
    THEN Done(d, "InvalidScanLimit")
    ELSE LET val == limit - 1
         IN  write_all_registers(d, UniformOps(d, "ScanLimit", val))

\* Max7219::set_device_decode_mode
set_device_decode_mode(d, device_index, mode) ==
    write_device_register(d, device_index, "DecodeMode", DecodeModeValue(mode))

\* Max7219::set_decode_mode_all
set_decode_mode_all(d, mode) ==
    LET byte == DecodeModeValue(mode)
    IN  write_all_registers(d, UniformOps(d, "DecodeMode", byte))

\* The loop of clear_display from the n-th digit register on; `?` leaves the
\* loop at the first error.
RECURSIVE clear_display_from(_, _, _)
clear_display_from(d, device_index, n) ==
    IF n > Len(digits)
    THEN Done(d, "Ok")
    ELSE LET r == write_device_register(d, device_index, digits[n], 0)
         IN  IF r.res # "Ok" THEN r
             ELSE clear_display_from(r.d, device_index, n + 1)

\* clear_display starting its loop at the second digit register.
clear_display_short(d, device_index) == clear_display_from(d, device_index, 2)

\* Max7219::clear_display
clear_display(d, device_index) == clear_display_from(d, device_index, 1)

\* The loop of clear_all with the result of each write discarded instead of
\* propagated with `?`.
RECURSIVE clear_all_from_ignoring(_, _)
clear_all_from_ignoring(d, n) ==
    IF n > Len(digits)
    THEN Done(d, "Ok")
    ELSE LET r == write_all_registers(d, UniformOps(d, digits[n], 0))
         IN  clear_all_from_ignoring(r.d, n + 1)

\* The loop of clear_all from the n-th digit register on.
RECURSIVE clear_all_from(_, _)
clear_all_from(d, n) ==
    IF n > Len(digits)
    THEN Done(d, "Ok")
    ELSE LET r == write_all_registers(d, UniformOps(d, digits[n], 0))
         IN  IF r.res # "Ok" THEN r
             ELSE clear_all_from(r.d, n + 1)

\* Max7219::clear_all
clear_all(d) == clear_all_from(d, 1)

\* write_raw_digit ignoring the error of try_digit.
write_raw_digit_unchecked(d, device_index, digit, value) ==
    LET t == try_digit(digit)
    IN  write_device_register(d, device_index, t.reg, value)

\* Max7219::write_raw_digit
write_raw_digit(d, device_index, digit, value) ==
    LET t == try_digit(digit)
    IN  IF t.res # "Ok" THEN Done(d, t.res)
        ELSE write_device_register(d, device_index, t.reg, value)

\* set_intensity with the range check `> 0x10` in place of `> 0x0F`.
set_intensity_wide(d, device_index, intensity) ==
    IF intensity > 16
    THEN Done(d, "InvalidIntensity")
    ELSE write_device_register(d, device_index, "Intensity", intensity)

\* set_intensity with the device index checked before the intensity.
set_intensity_index_first(d, device_index, intensity) ==
    IF device_index >= d.device_count
    THEN Done(d, "InvalidDeviceIndex")
    ELSE IF intensity > 15
         THEN Done(d, "InvalidIntensity")
         ELSE write_device_register(d, device_index, "Intensity", intensity)

\* Max7219::set_intensity
set_intensity(d, device_index, intensity) ==
    IF intensity > 15
    THEN Done(d, "InvalidIntensity")
    ELSE write_device_register(d, device_index, "Intensity", intensity)

\* Max7219::set_intensity_all
set_intensity_all(d, intensity) ==
    IF intensity > 15
    THEN Done(d, "InvalidIntensity")
    ELSE write_all_registers(d, UniformOps(d, "Intensity", intensity))

\* init with test_all(false) issued before power_on.
init_reordered(d) ==
    LET r1 == test_all(d, FALSE) IN
    IF r1.res # "Ok" THEN r1 ELSE
    LET r2 == power_on(r1.d) IN
    IF r2.res # "Ok" THEN r2 ELSE
    LET r3 == set_scan_limit_all(r2.d, NUM_DIGITS) IN
    IF r3.res # "Ok" THEN r3 ELSE
    LET r4 == set_decode_mode_all(r3.d, "NoDecode") IN
    IF r4.res # "Ok" THEN r4 ELSE
    clear_all(r4.d)

\* Max7219::init
init(d) ==
    LET r1 == power_on(d) IN
    IF r1.res # "Ok" THEN r1 ELSE
    LET r2 == test_all(r1.d, FALSE) IN
    IF r2.res # "Ok" THEN r2 ELSE
    LET r3 == set_scan_limit_all(r2.d, NUM_DIGITS) IN
    IF r3.res # "Ok" THEN r3 ELSE
    LET r4 == set_decode_mode_all(r3.d, "NoDecode") IN
    IF r4.res # "Ok" THEN r4 ELSE
    clear_all(r4.d)

\* ---------------------------------------------------------------------------
\* Actions: one per public method (and the crate-internal single-device write)
\* ---------------------------------------------------------------------------

\* The record of a call; unused arguments are 0 / "NoOp" / "NoDecode".
Call(op, dev, reg, data, arg, mode) ==
    [op |-> op, dev |-> dev, reg |-> reg, data |-> data, arg |-> arg,
     mode |-> mode, ops |-> << >>]

\* The driver at the start of a call whose failAt-th write fails.
Entry(failAt) ==
    [device_count |-> device_count, buffer |-> buffer, spi |-> FreshSpi(failAt)]

\* Store the outcome r of the call c.
Return(c, r) ==
    /\ device_count' = r.d.device_count
    /\ buffer' = r.d.buffer
    /\ spi' = r.d.spi.log
    /\ spi_error' = r.d.spi.failed
    /\ call' = c
    /\ result' = r.res

Init ==
    /\ alive = TRUE
    /\ device_count = new(0).device_count
    /\ buffer = new(0).buffer
    /\ spi = new(0).spi.log
    /\ spi_error = new(0).spi.failed
    /\ call = Call("new", 0, "NoOp", 0, 0, "NoDecode")
    /\ result = "Ok"
    /\ reconfigured = FALSE

New ==
    /\ alive' = TRUE
    /\ reconfigured' = FALSE
    /\ Return(Call("new", 0, "NoOp", 0, 0, "NoDecode"), Done(new(0), "Ok"))

\* with_device_count takes the driver by value: on Err the driver is dropped.
WithDeviceCount ==
    /\ alive
    /\ \E count \in DeviceCounts :
         LET r == with_device_count(Entry(0), count)
         IN  /\ Return(Call("with_device_count", 0, "NoOp", 0, count, "NoDecode"), r)
             /\ alive' = (r.res = "Ok")
             /\ reconfigured' = (reconfigured \/ r.d.device_count # device_count)

WriteDeviceRegister ==
    /\ alive
    /\ \E i \in DeviceIndexes, reg \in Registers, v \in DataBytes, f \in 0..1 :
         Return(Call("write_device_register", i, reg, v, 0, "NoDecode"),
                write_device_register(Entry(f), i, reg, v))
    /\ UNCHANGED << alive, reconfigured >>

\* A panic unwinds out of the caller: the driver is not used afterwards.
WriteAllRegisters ==
    /\ alive
    /\ \E ops \in OpLists, f \in 0..1 :
         LET r == write_all_registers(Entry(f), ops)
         IN  /\ Return([Call("write_all_registers", 0, "NoOp", 0, Len(ops), "NoDecode")
                          EXCEPT !.ops = ops], r)
             /\ alive' = (r.res # "Panic")
    /\ UNCHANGED reconfigured

PowerOn ==
    /\ alive
    /\ \E f \in 0..1 :
         Return(Call("power_on", 0, "NoOp", 0, 0, "NoDecode"), power_on(Entry(f)))
    /\ UNCHANGED << alive, reconfigured >>

PowerOff ==
    /\ alive
    /\ \E f \in 0..1 :
         Return(Call("power_off", 0, "NoOp", 0, 0, "NoDecode"), power_off(Entry(f)))
    /\ UNCHANGED << alive, reconfigured >>

PowerOnDevice ==
    /\ alive
    /\ \E i \in DeviceIndexes, f \in 0..1 :
         Return(Call("power_on_device", i, "NoOp", 0, 0, "NoDecode"),
                power_on_device(Entry(f), i))
    /\ UNCHANGED << alive, reconfigured >>

PowerOffDevice ==
    /\ alive
    /\ \E i \in DeviceIndexes, f \in 0..1 :
         Return(Call("power_off_device", i, "NoOp", 0, 0, "NoDecode"),
                power_off_device(Entry(f), i))
    /\ UNCHANGED << alive, reconfigured >>

TestDevice ==
    /\ alive
    /\ \E i \in DeviceIndexes, enable \in BOOLEAN, f \in 0..1 :
         Return(Call("test_device", i, "NoOp", 0, IF enable THEN 1 ELSE 0, "NoDecode"),
                test_device(Entry(f), i, enable))
    /\ UNCHANGED << alive, reconfigured >>

TestAll ==
    /\ alive
    /\ \E enable \in BOOLEAN, f \in 0..1 :
         Return(Call("test_all", 0, "NoOp", 0, IF enable THEN 1 ELSE 0, "NoDecode"),
                test_all(Entry(f), enable))
    /\ UNCHANGED << alive, reconfigured >>

SetDeviceScanLimit ==
    /\ alive
    /\ \E i \in DeviceIndexes, limit \in 0..MaxLimitArg, f \in 0..1 :
         Return(Call("set_device_scan_limit", i, "NoOp", 0, limit, "NoDecode"),
                set_device_scan_limit(Entry(f), i, limit))
    /\ UNCHANGED << alive, reconfigured >>

SetScanLimitAll ==
    /\ alive
    /\ \E limit \in 0..MaxLimitArg, f \in 0..1 :
         Return(Call("set_scan_limit_all", 0, "NoOp", 0, limit, "NoDecode"),
                set_scan_limit_all(Entry(f), limit))
    /\ UNCHANGED << alive, reconfigured >>

SetDeviceDecodeMode ==
    /\ alive
    /\ \E i \in DeviceIndexes, mode \in DecodeModes, f \in 0..1 :
         Return(Call("set_device_decode_mode", i, "NoOp", 0, 0, mode),
                set_device_decode_mode(Entry(f), i, mode))
    /\ UNCHANGED << alive, reconfigured >>

SetDecodeModeAll ==
    /\ alive
    /\ \E mode \in DecodeModes, f \in 0..1 :
         Return(Call("set_decode_mode_all", 0, "NoOp", 0, 0, mode),
                set_decode_mode_all(Entry(f), mode))
    /\ UNCHANGED << alive, reconfigured >>

ClearDisplay ==
    /\ alive
    /\ \E i \in DeviceIndexes, f \in 0..Len(digits) :
         Return(Call("clear_display", i, "NoOp", 0, 0, "NoDecode"),
                clear_display(Entry(f), i))
    /\ UNCHANGED << alive, reconfigured >>

ClearAll ==
    /\ alive
    /\ \E f \in 0..Len(digits) :
         Return(Call("clear_all", 0, "NoOp", 0, 0, "NoDecode"), clear_all(Entry(f)))
    /\ UNCHANGED << alive, reconfigured >>

WriteRawDigit ==
    /\ alive
    /\ \E i \in DeviceIndexes, digit \in 0..MaxDigitArg, v \in DataBytes, f \in 0..1 :
         Return(Call("write_raw_digit", i, "NoOp", v, digit, "NoDecode"),
                write_raw_digit(Entry(f), i, digit, v))
    /\ UNCHANGED << alive, reconfigured >>

SetIntensity ==
    /\ alive
    /\ \E i \in DeviceIndexes, intensity \in 0..MaxIntensityArg, f \in 0..1 :
         Return(Call("set_intensity", i, "NoOp", 0, intensity, "NoDecode"),
                set_intensity(Entry(f), i, intensity))
    /\ UNCHANGED << alive, reconfigured >>

SetIntensityAll ==
    /\ alive
    /\ \E intensity \in 0..MaxIntensityArg, f \in 0..1 :
         Return(Call("set_intensity_all", 0, "NoOp", 0, intensity, "NoDecode"),
                set_intensity_all(Entry(f), intensity))
    /\ UNCHANGED << alive, reconfigured >>

InitDriver ==
    /\ alive
    /\ \E f \in 0..(4 + Len(digits)) :
         Return(Call("init", 0, "NoOp", 0, 0, "NoDecode"), init(Entry(f)))
    /\ UNCHANGED << alive, reconfigured >>

\* Any caller: every method, in any order.
Next ==
    \/ New
    \/ WithDeviceCount
    \/ WriteDeviceRegister
    \/ WriteAllRegisters
    \/ PowerOn
    \/ PowerOff
    \/ PowerOnDevice
    \/ PowerOffDevice
    \/ TestDevice
    \/ TestAll
    \/ SetDeviceScanLimit
    \/ SetScanLimitAll
    \/ SetDeviceDecodeMode
    \/ SetDecodeModeAll
    \/ ClearDisplay
    \/ ClearAll
    \/ WriteRawDigit
    \/ SetIntensity
    \/ SetIntensityAll
    \/ InitDriver

Spec == Init /\ [][Next]_vars

\* A caller that constructs and configures drivers and then uses one family of
\* methods.  The observation variables (call, result, spi) make the state space
\* of Spec the product of the buffer contents and the calls; each family below
\* is checked exhaustively.

\* The single-device addressed writes.
NextDevice ==
    \/ New
    \/ WithDeviceCount
    \/ WriteDeviceRegister
    \/ PowerOnDevice
    \/ PowerOffDevice
    \/ TestDevice
    \/ SetDeviceDecodeMode
    \/ ClearDisplay

SpecDevice == Init /\ [][NextDevice]_vars

\* The broadcast writes and init.
NextBroadcast ==
    \/ New
    \/ WithDeviceCount
    \/ PowerOn
    \/ PowerOff
    \/ TestAll
    \/ SetScanLimitAll
    \/ SetDecodeModeAll
    \/ SetIntensityAll
    \/ ClearAll
    \/ InitDriver

SpecBroadcast == Init /\ [][NextBroadcast]_vars

\* The scan-limit setters.
NextScanLimit ==
    \/ New
    \/ WithDeviceCount
    \/ SetDeviceScanLimit
    \/ SetScanLimitAll

SpecScanLimit == Init /\ [][NextScanLimit]_vars

\* The intensity setters.
NextIntensity ==
    \/ New
    \/ WithDeviceCount
    \/ SetIntensity
    \/ SetIntensityAll

SpecIntensity == Init /\ [][NextIntensity]_vars

\* The raw digit write.
NextDigit ==
    \/ New
    \/ WithDeviceCount
    \/ WriteRawDigit

SpecDigit == Init /\ [][NextDigit]_vars

\* The all-device write from an explicit operation list.
NextOps ==
    \/ New
    \/ WithDeviceCount
    \/ WriteAllRegisters

SpecOps == Init /\ [][NextOps]_vars

\* The writes that take no value argument, single and multi-transmission.
NextWrite ==
    \/ New
    \/ WithDeviceCount
    \/ PowerOn
    \/ PowerOff
    \/ TestAll
    \/ PowerOnDevice
    \/ PowerOffDevice
    \/ TestDevice
    \/ ClearDisplay
    \/ ClearAll
    \/ InitDriver

SpecWrite == Init /\ [][NextWrite]_vars

\* The per-device setters that validate a value before the device index.
NextSetter ==
    \/ New
    \/ WithDeviceCount
    \/ SetDeviceScanLimit
    \/ SetIntensity
    \/ WriteRawDigit

SpecSetter == Init /\ [][NextSetter]_vars

\* Methods that between them return every validation error.
NextValidation ==
    \/ New
    \/ WithDeviceCount
    \/ SetDeviceScanLimit
    \/ SetScanLimitAll
    \/ SetIntensityAll
    \/ WriteRawDigit

SpecValidation == Init /\ [][NextValidation]_vars

TypeOK ==
    /\ alive \in BOOLEAN
    /\ reconfigured \in BOOLEAN
    /\ spi_error \in 0..Len(spi)
    /\ device_count \in 0..MAX_DISPLAYS
    /\ \A j \in BufferIndexes : buffer[j] \in 0..255
    /\ \A n \in 1..Len(spi) : \A k \in 1..Len(spi[n]) : spi[n][k] \in 0..255

\* ---------------------------------------------------------------------------
\* Properties
\* ---------------------------------------------------------------------------

\* The k-th (register, data) pair of a frame, k counted from 0.
Pair(frame, k) == << frame[2 * k + 1], frame[2 * k + 2] >>

\* The frame of L pairs that addresses << a, v >> to device i and NoOp to the rest.
AddressedFrame(L, i, a, v) ==
    [j \in 1..(2 * L) |->
       IF j = 2 * i + 1 THEN a ELSE IF j = 2 * i + 2 THEN v ELSE 0]

\* The frame of L pairs that carries << a, v >> to every device.
UniformFrame(L, a, v) == [j \in 1..(2 * L) |-> IF j % 2 = 1 THEN a ELSE v]

\* The register Digit_n of the claims, n in 0..7.
DigitRegister(n) ==
    CASE n = 0 -> "Digit0" [] n = 1 -> "Digit1" [] n = 2 -> "Digit2"
      [] n = 3 -> "Digit3" [] n = 4 -> "Digit4" [] n = 5 -> "Digit5"
      [] n = 6 -> "Digit6" [] n = 7 -> "Digit7"

\* The transport reported no error during the last call.
TransportSucceeded == result # "Spi"

\* C1: for a chain of L devices (1 <= L <= MAX_DISPLAYS) and a device index
\* i < L, write_device_register(i, R, V) performs exactly one transmission, of
\* exactly 2L bytes, with [addr(R), V] at bytes 2i, 2i+1 and [0, 0] in every
\* other pair.
C1_WriteDeviceRegisterFrame ==
    ( /\ call.op = "write_device_register"
      /\ device_count \in 1..MAX_DISPLAYS
      /\ call.dev < device_count )
    => /\ Len(spi) = 1
       /\ Len(spi[1]) = 2 * device_count
       /\ \A k \in 0..(device_count - 1) :
            Pair(spi[1], k) = IF k = call.dev
                              THEN << addr(call.reg), call.data >>
                              ELSE << 0, 0 >>

C1_Witness ==
    /\ call.op = "write_device_register"
    /\ device_count = 4
    /\ call.dev = 2
    /\ call.reg = "Shutdown"
    /\ call.data = 255
    /\ spi = << << 0, 0, 0, 0, 12, 255, 0, 0 >> >>

PerDeviceOps ==
    { "write_device_register", "power_on_device", "power_off_device",
      "test_device", "set_device_decode_mode", "clear_display" }

\* C2: with a device index i >= the chain length, each of write_device_register,
\* power_on_device, power_off_device, test_device, set_device_decode_mode and
\* clear_display returns InvalidDeviceIndex and asks the transport for nothing.
C2_InvalidIndexNoTransmission ==
    (call.op \in PerDeviceOps /\ call.dev >= device_count)
    => (result = "InvalidDeviceIndex" /\ spi = << >>)

C2_Witness ==
    /\ call.op = "clear_display"
    /\ device_count = 1
    /\ call.dev = 1
    /\ result = "InvalidDeviceIndex"
    /\ spi = << >>

\* C3 (as claimed): with_device_count(length) returns InvalidDeviceCount and
\* leaves the chain length as it was when length > MAX_DISPLAYS or length = 0,
\* and for 1 <= length <= MAX_DISPLAYS succeeds with device_count() = length.
C3_WithDeviceCountRange ==
    [][ call'.op = "with_device_count"
        => IF call'.arg > MAX_DISPLAYS \/ call'.arg = 0
           THEN result' = "InvalidDeviceCount" /\ device_count' = device_count
           ELSE result' = "Ok" /\ device_count' = call'.arg ]_vars

\* C4 (as claimed): the chain length of a driver is always in 1..MAX_DISPLAYS.
C4_ChainLengthInRange == device_count \in 1..MAX_DISPLAYS

BroadcastOps ==
    { "power_on", "power_off", "test_all", "set_scan_limit_all",
      "set_decode_mode_all", "set_intensity_all" }

\* The arguments of a broadcast call pass its validation.
BroadcastArgsValid(c) ==
    CASE c.op = "set_scan_limit_all" -> c.arg \in 1..8
      [] c.op = "set_intensity_all"  -> c.arg \in 0..15
      [] OTHER                       -> TRUE

\* The (address, payload) pair the claim gives for a broadcast call.
BroadcastPair(c) ==
    CASE c.op = "power_on"            -> << addr("Shutdown"), 1 >>
      [] c.op = "power_off"           -> << addr("Shutdown"), 0 >>
      [] c.op = "test_all"            -> << addr("DisplayTest"), c.arg >>
      [] c.op = "set_scan_limit_all"  -> << addr("ScanLimit"), c.arg - 1 >>
      [] c.op = "set_decode_mode_all" -> << addr("DecodeMode"), DecodeModeValue(c.mode) >>
      [] c.op = "set_intensity_all"   -> << addr("Intensity"), c.arg >>

\* C5: each broadcast operation with valid arguments performs exactly one
\* transmission, of exactly 2L bytes, made of L identical (address, payload)
\* pairs: Shutdown 1/0, DisplayTest 1/0, ScanLimit limit-1, DecodeMode mode
\* byte, Intensity value.
C5_BroadcastFrame ==
    (call.op \in BroadcastOps /\ BroadcastArgsValid(call))
    => /\ Len(spi) = 1
       /\ Len(spi[1]) = 2 * device_count
       /\ \A k \in 0..(device_count - 1) : Pair(spi[1], k) = BroadcastPair(call)

C5_Witness ==
    /\ call.op = "set_decode_mode_all"
    /\ call.mode = "AllDigits"
    /\ device_count = 3
    /\ spi = << << 9, 255, 9, 255, 9, 255 >> >>

\* C6: set_device_scan_limit (with a valid device index) and set_scan_limit_all
\* transmit the payload limit - 1 to the ScanLimit register for every limit in
\* 1..8; for every other limit they return InvalidScanLimit and ask the
\* transport for nothing.
C6_ScanLimit ==
    /\ (call.op = "set_device_scan_limit" /\ call.arg \in 1..8
          /\ call.dev < device_count)
       => /\ result \in { "Ok", "Spi" }
          /\ spi = << AddressedFrame(device_count, call.dev,
                                     addr("ScanLimit"), call.arg - 1) >>
    /\ (call.op = "set_scan_limit_all" /\ call.arg \in 1..8)
       => /\ result \in { "Ok", "Spi" }
          /\ spi = << UniformFrame(device_count, addr("ScanLimit"), call.arg - 1) >>
    /\ (call.op \in { "set_device_scan_limit", "set_scan_limit_all" }
          /\ call.arg \notin 1..8)
       => (result = "InvalidScanLimit" /\ spi = << >>)

C6_Witness ==
    /\ call.op = "set_device_scan_limit"
    /\ call.arg = 8
    /\ call.dev = 1
    /\ device_count = 2
    /\ spi = << << 0, 0, 11, 7 >> >>

\* C7: set_intensity (with a valid device index) and set_intensity_all transmit
\* the intensity itself to the Intensity register for every intensity in
\* 0..15; for every intensity above 15 they return InvalidIntensity and ask the
\* transport for nothing.
C7_Intensity ==
    /\ (call.op = "set_intensity" /\ call.arg \in 0..15
          /\ call.dev < device_count)
       => /\ result \in { "Ok", "Spi" }
          /\ spi = << AddressedFrame(device_count, call.dev,
                                     addr("Intensity"), call.arg) >>
    /\ (call.op = "set_intensity_all" /\ call.arg \in 0..15)
       => /\ result \in { "Ok", "Spi" }
          /\ spi = << UniformFrame(device_count, addr("Intensity"), call.arg) >>
    /\ (call.op \in { "set_intensity", "set_intensity_all" } /\ call.arg > 15)
       => (result = "InvalidIntensity" /\ spi = << >>)

C7_Witness ==
    /\ call.op = "set_intensity"
    /\ call.arg = 15
    /\ call.dev = 0
    /\ device_count = 2
    /\ result = "Ok"
    /\ spi = << << 10, 15, 0, 0 >> >>

\* C8: write_raw_digit(device, n, value) with a valid device index transmits
\* [addr(Digit_n), value] at the device's position, the value unmodified, for
\* every n in 0..7; for every n >= 8 it returns InvalidDigit and asks the
\* transport for nothing.
C8_WriteRawDigit ==
    (call.op = "write_raw_digit" /\ call.dev < device_count)
    => IF call.arg \in 0..7
       THEN /\ result \in { "Ok", "Spi" }
            /\ spi = << AddressedFrame(device_count, call.dev,
                                       addr(DigitRegister(call.arg)), call.data) >>
       ELSE result = "InvalidDigit" /\ spi = << >>

C8_Witness ==
    /\ call.op = "write_raw_digit"
    /\ call.arg = 7
    /\ call.dev = 1
    /\ call.data = 255
    /\ device_count = 3
    /\ result = "Ok"
    /\ spi = << << 0, 0, 8, 255, 0, 0 >> >>

\* C9: clear_display(i) with i < chain length and a transport that never fails
\* issues exactly 8 transmissions, in digit order 0 to 7, the n-th a 2L-byte
\* frame with [addr(Digit_n), 0] at position i and zero pairs elsewhere.
C9_ClearDisplaySequence ==
    (call.op = "clear_display" /\ call.dev < device_count /\ TransportSucceeded)
    => /\ result = "Ok"
       /\ Len(spi) = 8
       /\ \A n \in 0..7 :
            spi[n + 1] = AddressedFrame(device_count, call.dev,
                                        addr(DigitRegister(n)), 0)

C9_Witness ==
    /\ call.op = "clear_display"
    /\ call.dev = 1
    /\ device_count = 2
    /\ result = "Ok"
    /\ Len(spi) = 8
    /\ spi[1] = << 0, 0, 1, 0 >>
    /\ spi[8] = << 0, 0, 8, 0 >>

\* C10: init() with a transport that never fails issues exactly 12
\* transmissions in this order: Shutdown=1, DisplayTest=0, ScanLimit=7,
\* DecodeMode=NoDecode, then Digit_n=0 for n = 0..7, each a broadcast frame of
\* 2L bytes.
C10_InitSequence ==
    (call.op = "init" /\ TransportSucceeded)
    => /\ result = "Ok"
       /\ Len(spi) = 12
       /\ spi[1] = UniformFrame(device_count, addr("Shutdown"), 1)
       /\ spi[2] = UniformFrame(device_count, addr("DisplayTest"), 0)
       /\ spi[3] = UniformFrame(device_count, addr("ScanLimit"), 7)
       /\ spi[4] = UniformFrame(device_count, addr("DecodeMode"), 0)
       /\ \A n \in 0..7 :
            spi[5 + n] = UniformFrame(device_count, addr(DigitRegister(n)), 0)

C10_Witness ==
    /\ call.op = "init"
    /\ device_count = 2
    /\ result = "Ok"
    /\ Len(spi) = 12
    /\ spi[1] = << 12, 1, 12, 1 >>
    /\ spi[4] = << 9, 0, 9, 0 >>
    /\ spi[12] = << 8, 0, 8, 0 >>

\* The errors a method returns for an argument out of range.
ValidationErrors ==
    { "InvalidDeviceIndex", "InvalidScanLimit", "InvalidIntensity",
      "InvalidDigit", "InvalidDeviceCount" }

\* C11: a call that returns a validation error (InvalidDeviceIndex,
\* InvalidScanLimit, InvalidIntensity, InvalidDigit, InvalidDeviceCount) leaves
\* the buffer and the chain length exactly as they were before the call and
\* asks the transport for nothing.
C11_ValidationErrorNoEffect ==
    [][ result' \in ValidationErrors
        => /\ buffer' = buffer
           /\ device_count' = device_count
           /\ spi' = << >> ]_vars

C11_Witness ==
    /\ call.op = "write_raw_digit"
    /\ call.dev = 2
    /\ device_count = 2
    /\ result = "InvalidDeviceIndex"
    /\ buffer[0] = 11
    /\ buffer[3] = 7
    /\ spi = << >>

\* C12: when the transport fails a transmission, the operation that issued it
\* returns the transport error, and the failed attempt is the last thing the
\* operation asks of the transport: the frame is attempted once, never retried,
\* and the error never becomes a success.
C12_TransportErrorReturnedOnce ==
    spi_error # 0 => (result = "Spi" /\ Len(spi) = spi_error)

C12_Witness ==
    /\ call.op = "test_all"
    /\ call.arg = 1
    /\ device_count = 2
    /\ spi_error = 1
    /\ result = "Spi"
    /\ spi = << << 15, 1, 15, 1 >> >>

\* The write operations that take no byte or value argument.
WriteOps ==
    { "power_on", "power_off", "test_all", "power_on_device",
      "power_off_device", "test_device", "clear_display", "clear_all", "init" }

\* The outcome of the call c on the driver value d.
Apply(c, d) ==
    CASE c.op = "power_on"         -> power_on(d)
      [] c.op = "power_off"        -> power_off(d)
      [] c.op = "test_all"         -> test_all(d, c.arg = 1)
      [] c.op = "power_on_device"  -> power_on_device(d, c.dev)
      [] c.op = "power_off_device" -> power_off_device(d, c.dev)
      [] c.op = "test_device"      -> test_device(d, c.dev, c.arg = 1)
      [] c.op = "clear_display"    -> clear_display(d, c.dev)
      [] c.op = "clear_all"        -> clear_all(d)
      [] c.op = "init"             -> init(d)

\* A driver of L devices that has written nothing yet.
Untouched(L, failAt) ==
    [device_count |-> L, buffer |-> ZeroBuffer, spi |-> FreshSpi(failAt)]

\* C13: the frames a write operation transmits depend only on the chain length
\* and the operation's arguments, never on earlier operations: they are the
\* frames the same call transmits on a driver of that length that has written
\* nothing yet; a broadcast repeated with the same arguments transmits the
\* same frame again; and a per-device write, whatever was written before it,
\* transmits zero pairs at every position but its target.
C13_FrameIndependentOfHistory ==
    [][ /\ call'.op \in WriteOps
           => spi' = Apply(call', Untouched(device_count', spi_error')).d.spi.log
        /\ ( /\ call'.op \in { "power_on", "power_off", "test_all" }
             /\ call' = call
             /\ device_count' = device_count )
           => spi' = spi
        /\ ( /\ call'.op \in { "power_on_device", "power_off_device",
                               "test_device", "clear_display" }
             /\ call'.dev < device_count' )
           => /\ Len(spi') >= 1
              /\ \A n \in 1..Len(spi') :
                   \A k \in 0..(device_count' - 1) :
                     k # call'.dev => Pair(spi'[n], k) = << 0, 0 >> ]_vars

C13_Witness ==
    /\ call.op = "power_off_device"
    /\ call.dev = 2
    /\ device_count = 4
    /\ result = "Ok"
    /\ spi = << << 0, 0, 0, 0, 12, 0, 0, 0 >> >>

\* C14 (as claimed): the chain length of a driver changes at most once: after
\* one successful with_device_count no later operation, a further
\* with_device_count included, changes it, and a refused reconfiguration never
\* changes it.  Stated for chain lengths in 1..MAX_DISPLAYS only, the range
\* the claims call valid.
C14_ChainLengthChangesAtMostOnce ==
    [][ /\ ( /\ reconfigured
             /\ call'.op # "new"
             /\ device_count \in 1..MAX_DISPLAYS
             /\ device_count' \in 1..MAX_DISPLAYS )
           => device_count' = device_count
        /\ (call'.op = "with_device_count" /\ result' = "InvalidDeviceCount")
           => device_count' = device_count ]_vars

\* C14 (amended): the chain length of a driver is changed only by a successful
\* with_device_count, which stores its argument every time it succeeds; no
\* other operation changes it, and a with_device_count that returns
\* InvalidDeviceCount leaves it as it was.
C14_ChainLengthChangedOnlyByReconfiguration ==
    [][ /\ (call'.op # "new" /\ device_count' # device_count)
           => /\ call'.op = "with_device_count"
              /\ result' = "Ok"
              /\ device_count' = call'.arg
        /\ (call'.op = "with_device_count" /\ result' = "Ok")
           => device_count' = call'.arg
        /\ (call'.op = "with_device_count" /\ result' = "InvalidDeviceCount")
           => device_count' = device_count ]_vars

\* A second change: the buffer still holds the broadcast written when the chain
\* had two devices, and the chain now has three.
C14_Witness ==
    /\ call.op = "with_device_count"
    /\ call.arg = 3
    /\ result = "Ok"
    /\ reconfigured
    /\ device_count = 3
    /\ buffer[2] = 12
    /\ buffer[3] = 1

\* C15 (as claimed): write_all_registers given a list whose length differs from
\* the chain length, shorter or longer, rejects the call (it panics or fails)
\* and asks the transport for nothing.
C15_MismatchedOpsRejected ==
    (call.op = "write_all_registers" /\ Len(call.ops) # device_count)
    => (result # "Ok" /\ spi = << >>)

\* C16: write_all_registers called with exactly L pairs, L the chain length,
\* performs exactly one transmission, of exactly 2L bytes, in which bytes
\* 2k, 2k+1 are [addr(R_k), V_k] for every k < L: the order of the list is
\* kept, pair 0 first.
C16_WriteAllRegistersFrame ==
    (call.op = "write_all_registers" /\ Len(call.ops) = device_count)
    => /\ result \in { "Ok", "Spi" }
       /\ Len(spi) = 1
       /\ Len(spi[1]) = 2 * device_count
       /\ \A k \in 0..(device_count - 1) :
            Pair(spi[1], k) = << addr(call.ops[k + 1][1]), call.ops[k + 1][2] >>

C16_Witness ==
    /\ call.op = "write_all_registers"
    /\ device_count = 3
    /\ call.ops = << << "Intensity", 1 >>, << "Digit0", 255 >>, << "Digit0", 255 >> >>
    /\ result = "Ok"
    /\ spi = << << 10, 1, 1, 255, 1, 255 >> >>

\* The multi-transmission operations.
MultiOps == { "clear_display", "clear_all", "init" }

\* The n-th frame (n from 1) of a multi-transmission call c on a chain of L.
ExpectedFrame(c, L, n) ==
    CASE c.op = "clear_display" ->
           AddressedFrame(L, c.dev, addr(DigitRegister(n - 1)), 0)
      [] c.op = "clear_all" ->
           UniformFrame(L, addr(DigitRegister(n - 1)), 0)
      [] c.op = "init" ->
           IF n = 1 THEN UniformFrame(L, addr("Shutdown"), 1)
           ELSE IF n = 2 THEN UniformFrame(L, addr("DisplayTest"), 0)
           ELSE IF n = 3 THEN UniformFrame(L, addr("ScanLimit"), 7)
           ELSE IF n = 4 THEN UniformFrame(L, addr("DecodeMode"), 0)
           ELSE UniformFrame(L, addr(DigitRegister(n - 5)), 0)

\* C17: in clear_display, clear_all and init, a transport failure on the k-th
\* transmission makes the operation return that error at once: exactly k
\* transmissions have been attempted, none of the remaining ones is issued,
\* and the k - 1 frames before it were sent as in a run without failure.
C17_FailureStopsSequence ==
    (call.op \in MultiOps /\ spi_error # 0)
    => /\ result = "Spi"
       /\ Len(spi) = spi_error
       /\ \A n \in 1..spi_error :
            spi[n] = ExpectedFrame(call, device_count, n)

C17_Witness ==
    /\ call.op = "init"
    /\ device_count = 2
    /\ spi_error = 6
    /\ result = "Spi"
    /\ Len(spi) = 6
    /\ spi[5] = << 1, 0, 1, 0 >>
    /\ spi[6] = << 2, 0, 2, 0 >>

\* C18: a per-device call whose value and device index are both invalid
\* (set_device_scan_limit with a limit outside 1..8, set_intensity with an
\* intensity above 15, write_raw_digit with a digit above 7, each with an index
\* >= the chain length) returns the value error (InvalidScanLimit,
\* InvalidIntensity, InvalidDigit), not InvalidDeviceIndex, and asks the
\* transport for nothing.
C18_ValueErrorBeforeIndexError ==
    call.dev >= device_count
    => /\ (call.op = "set_device_scan_limit" /\ call.arg \notin 1..8)
          => (result = "InvalidScanLimit" /\ spi = << >>)
       /\ (call.op = "set_intensity" /\ call.arg > 15)
          => (result = "InvalidIntensity" /\ spi = << >>)
       /\ (call.op = "write_raw_digit" /\ call.arg > 7)
          => (result = "InvalidDigit" /\ spi = << >>)

C18_Witness ==
    /\ call.op = "set_intensity"
    /\ call.arg = 16
    /\ call.dev = 3
    /\ device_count = 2
    /\ result = "InvalidIntensity"
    /\ spi = << >>

====
